---- MODULE Spec2Model ----
(***************************************************************************)
(* Model of src/src/legio/legio.cpp: the Legio control core of the PRat    *)
(* distortion.  Two execution contexts: the audio interrupt handler        *)
(* AudioCallback (one atomic step per audio block) and the status loop of  *)
(* main (one step per shared-variable access).                             *)
(*                                                                         *)
(* Floats are fixed-point integers in units of 1/400: 1.f = 400,           *)
(* 0.5f = 200, 0.4f = 160, 0.05f = 20, 1/16 = 25.  Every float the model   *)
(* handles is a multiple of 1/400, so the arithmetic below is exact.       *)
(***************************************************************************)
EXTENDS Integers, FiniteSets, Sequences, TLC

VARIABLES
    initialized,    \* bool initialized                       (line 27)
    envVal,         \* float envVal                           (line 35)
    satVal,         \* float satVal                           (line 36)
    dist,           \* parameters the core has set on PRatDist dist
    ng,             \* parameters the core has set on NoiseGate ng
    first,          \* AudioCallback: static bool first       (line 43)
    cur_gain,       \* AudioCallback: static float cur_gain   (line 46)
    cur_level,      \* AudioCallback: static float cur_level  (line 47)
    cv_filter,      \* AudioCallback: static GrabValue        (line 49)
    cv_mix,         \* AudioCallback: static GrabValue        (line 50)
    ng_threshold,   \* AudioCallback: static GrabValue        (line 52)
    ng_release,     \* AudioCallback: static GrabValue        (line 53)
    hw,             \* readings of DaisyLegio hw seen by the last block
    buf,            \* audio buffers of the last block: in and out, L and R
    blk,            \* what the last block did (calls made, locals)
    main_first,     \* main: static bool first                (line 145)
    boottime,       \* main: uint32_t boottime                (line 159)
    now,            \* System::GetNow(), the millisecond clock
    pc,             \* position of the status loop
    led,            \* colours set with hw.SetLed
    ledShown,       \* colours written out by hw.UpdateLeds
    twin,           \* a second run of AudioCallback: its statics, engines
                    \* and telemetry (same readings, other telemetry)
    phase,          \* whose turn it is when the two runs are compared
    pend            \* the readings the second run has still to handle

audioVars == <<first, cur_gain, cur_level, cv_filter, cv_mix, ng_threshold,
               ng_release, dist, ng, hw, buf, blk>>
telemetryVars == <<envVal, satVal>>
mainVars == <<main_first, boottime, pc, led, ledShown>>
twinVars == <<twin, phase, pend>>
vars == <<initialized, envVal, satVal, dist, ng, first, cur_gain, cur_level,
          cv_filter, cv_mix, ng_threshold, ng_release, hw, buf, blk,
          main_first, boottime, now, pc, led, ledShown, twin, phase, pend>>

----------------------------------------------------------------------------
(* Fixed-point constants of the source *)

One == 400
Half == 200
NgThresholdInit == 160
BypassCutoff == 20
EncDiv == 16
BootWindow == 1000
SatDiv == 5
EnvMulNum == 5
EnvMulDen == 2

(* A parameter the core has not set yet *)
Unset == 0 - 1

POS_UP == "UP"
POS_CENTER == "CENTER"
POS_DOWN == "DOWN"
Switch3 == {POS_UP, POS_CENTER, POS_DOWN}

----------------------------------------------------------------------------
(* Arithmetic of the source *)

\* C++ integer division truncates toward zero
TruncDiv(a, b) == IF a >= 0 THEN a \div b ELSE 0 - ((0 - a) \div b)

\* daisysp fclamp(in, min, max)
fclamp(x, lo, hi) == IF x < lo THEN lo ELSE IF x > hi THEN hi ELSE x

Abs(x) == IF x < 0 THEN 0 - x ELSE x

----------------------------------------------------------------------------
(* GrabValue<float>: GrabValue.h is not among the sources; modelled from   *)
(* the specification's "Reconciled Control": {heldValue, tracking}.        *)

GrabTolerance == 2

GrabValue(v) == [value |-> v, tracking |-> TRUE]

Near(raw, held) == Abs(raw - held) <= GrabTolerance

GrabUpdate(g, raw) ==
    IF g.tracking \/ Near(raw, g.value)
    THEN [value |-> raw, tracking |-> TRUE]
    ELSE g

GrabLock(g) == [g EXCEPT !.tracking = FALSE]

GrabGet(g) == g.value

----------------------------------------------------------------------------
(* AudioCallback, lines 39-140 *)

\* mutant: the encoder switch does not shift while the engine saturates
Shift_UnlessSaturated(pressed, isFirst) ==
    pressed /\ ~isFirst /\ satVal < One

\* mutant: the encoder switch shifts the first block too
Shift_FromFirstBlock(pressed, isFirst) == pressed

\* line 63: const bool shift = hw.encoder.Pressed() && !first;
Shift(pressed, isFirst) == pressed /\ ~isFirst

\* The calls a block makes on the four controls: none before line 68
NoCalls == [cv_filter |-> {}, cv_mix |-> {}, ng_threshold |-> {},
            ng_release |-> {}]

\* The calls lines 68-80 make on the four controls
Update(cv) == <<"Update", cv>>
Lock == <<"Lock">>

\* mutant: the control pair that is not driven is left alone, never locked
KnobMux_NoLock(shift, cv0, cv1, c) ==
    IF ~shift
    THEN [filter    |-> GrabUpdate(c.filter, cv0),
          mix       |-> GrabUpdate(c.mix, cv1),
          threshold |-> c.threshold,
          release   |-> c.release,
          calls     |-> [cv_filter |-> {Update(cv0)}, cv_mix |-> {Update(cv1)},
                         ng_threshold |-> {}, ng_release |-> {}]]
    ELSE [filter    |-> c.filter,
          mix       |-> c.mix,
          threshold |-> GrabUpdate(c.threshold, cv0),
          release   |-> GrabUpdate(c.release, cv1),
          calls     |-> [cv_filter |-> {}, cv_mix |-> {},
                         ng_threshold |-> {Update(cv0)},
                         ng_release |-> {Update(cv1)}]]

\* mutant: the shifted branch forgets to lock filter and mix and keeps
\* updating them
KnobMux_BothUpdated(shift, cv0, cv1, c) ==
    [filter    |-> GrabUpdate(c.filter, cv0),
     mix       |-> GrabUpdate(c.mix, cv1),
     threshold |-> IF shift THEN GrabUpdate(c.threshold, cv0)
                   ELSE GrabLock(c.threshold),
     release   |-> IF shift THEN GrabUpdate(c.release, cv1)
                   ELSE GrabLock(c.release),
     calls     |-> [cv_filter |-> {Update(cv0)}, cv_mix |-> {Update(cv1)},
                    ng_threshold |-> IF shift THEN {Update(cv0)} ELSE {Lock},
                    ng_release |-> IF shift THEN {Update(cv1)} ELSE {Lock}]]

\* lines 68-80: the two knobs drive one pair of controls, the other is locked
KnobMux(shift, cv0, cv1, c) ==
    IF ~shift
    THEN [filter    |-> GrabUpdate(c.filter, cv0),
          mix       |-> GrabUpdate(c.mix, cv1),
          threshold |-> GrabLock(c.threshold),
          release   |-> GrabLock(c.release),
          calls     |-> [cv_filter |-> {Update(cv0)}, cv_mix |-> {Update(cv1)},
                         ng_threshold |-> {Lock}, ng_release |-> {Lock}]]
    ELSE [filter    |-> GrabLock(c.filter),
          mix       |-> GrabLock(c.mix),
          threshold |-> GrabUpdate(c.threshold, cv0),
          release   |-> GrabUpdate(c.release, cv1),
          calls     |-> [cv_filter |-> {Lock}, cv_mix |-> {Lock},
                         ng_threshold |-> {Update(cv0)},
                         ng_release |-> {Update(cv1)}]]

\* line 82: const float encInc = hw.encoder.Increment() / 16;
\* Increment() is an int32_t, so the division is an integer division and
\* its quotient is then converted to float.
EncInc(inc) == TruncDiv(inc, EncDiv) * One

\* lines 83-87
EncGain(shift, g, encInc) == IF shift THEN g ELSE fclamp(g + encInc, 0, One)
EncLevel(shift, l, encInc) == IF shift THEN fclamp(l + encInc, 0, One) ELSE l

\* mutant: the pitch CV is left out of the dispatched gain
DistGain_NoPitch(g, gain_cv) == fclamp(g, 0, One)

\* mutant: the sum of gain and pitch CV is not clamped
DistGain_NoClamp(g, gain_cv) == g + gain_cv

\* lines 91-94
DistGain(g, gain_cv) == fclamp(g + gain_cv, 0, One)
DistFilter(c) == fclamp(GrabGet(c), 0, One)
DistLevel(l) == fclamp(l, 0, One)
DistMix(c) == fclamp(GrabGet(c), 0, One)

\* mutant: the gate input is not read
Hard_ClipOnly(sw_clip, gate) == IF sw_clip = POS_CENTER THEN One ELSE 0

\* mutant: every position but UP bypasses
Bypass_NotUp(sw_clip) == IF sw_clip # POS_UP THEN One ELSE 0

\* lines 99-102
Hard(sw_clip, gate) == IF sw_clip = POS_CENTER \/ gate THEN One ELSE 0
Bypass(sw_clip) == IF sw_clip = POS_DOWN THEN One ELSE 0
Ruetz(sw_mod) == IF sw_mod = POS_CENTER THEN One ELSE 0

\* mutant: tight in every position of the mod switch but UP
Tight_NotUp(sw_mod) == IF sw_mod # POS_UP THEN One ELSE 0

\* line 102
Tight(sw_mod) == IF sw_mod = POS_DOWN THEN One ELSE 0

\* mutant: P_SILED is written in every mode
DistSetParams_SiLed(d, gain, filter, level, mix, hard, tight, ruetz, bypass) ==
    [gain   |-> gain,
     filter |-> filter,
     level  |-> level,
     drywet |-> IF 2 * hard >= One THEN One ELSE mix,
     siled  |-> mix,
     hard   |-> hard,
     tight  |-> tight,
     ruetz  |-> ruetz,
     bypass |-> bypass]

\* lines 104-117: dist.SetParam for every parameter; P_SILED only in hard mode
DistSetParams(d, gain, filter, level, mix, hard, tight, ruetz, bypass) ==
    [gain   |-> gain,
     filter |-> filter,
     level  |-> level,
     drywet |-> IF 2 * hard >= One THEN One ELSE mix,
     siled  |-> IF 2 * hard >= One THEN mix ELSE d.siled,
     hard   |-> hard,
     tight  |-> tight,
     ruetz  |-> ruetz,
     bypass |-> bypass]

\* mutant: the gate is re-parameterized on the first block only
NgReparam_FirstOnly(isFirst, shift) == isFirst

\* mutant: the gate is re-parameterized on every block
NgReparam_EveryBlock(isFirst, shift) == TRUE

\* line 121: if (first || shift)
NgReparam(isFirst, shift) == isFirst \/ shift

\* mutant: a threshold of exactly 0.05 bypasses the gate too
NgBypass_Inclusive(threshold) == IF threshold <= BypassCutoff THEN One ELSE 0

\* line 125: ng_threshold.Get() < 0.05f ? 1.f : 0.f
NgBypass(threshold) == IF threshold < BypassCutoff THEN One ELSE 0

\* lines 122-125
NgSetParams(g, threshold, release) ==
    [g EXCEPT !.threshold = GrabGet(threshold),
              !.release = GrabGet(release),
              !.bypass = NgBypass(GrabGet(threshold))]

\* line 135: satVal = fclamp(dist.GetSaturation() / 5.f, 0.f, 1.f);
SatVal(saturation) == fclamp(saturation \div SatDiv, 0, One)
\* line 137: envVal = fclamp(ng.GetEnvelope() * 2.5f, 0.f, 1.f);
EnvVal(envelope) == fclamp((envelope * EnvMulNum) \div EnvMulDen, 0, One)

\* lines 130-132: dist.Process then ng.Process rewrite the block; what the
\* engines compute is outside this file, the model only marks the sample
Sample(n) == <<"raw", n>>
Processed(x) == <<"fx", x[2]>>

\* mutant: first is cleared before the early return
PassThru_ClearsFirst(r, inL, inR) ==
    /\ buf' = [inL |-> inL, inR |-> inR, outL |-> inL, outR |-> inR]
    /\ blk' = [kind |-> "copy", shift |-> blk.shift, prev |-> blk.prev,
               wasFirst |-> first, calls |-> NoCalls,
               distUpdate |-> FALSE, ngUpdate |-> FALSE]
    /\ first' = FALSE
    /\ UNCHANGED <<cur_gain, cur_level, cv_filter, cv_mix,
                   ng_threshold, ng_release, dist, ng, envVal, satVal>>

\* lines 58-61: Utils::Copy(IN_L, IN_R, OUT_L, OUT_R, size); return;
PassThru(r, inL, inR) ==
    /\ buf' = [inL |-> inL, inR |-> inR, outL |-> inL, outR |-> inR]
    /\ blk' = [kind |-> "copy", shift |-> blk.shift, prev |-> blk.prev,
               wasFirst |-> first, calls |-> NoCalls,
               distUpdate |-> FALSE, ngUpdate |-> FALSE]
    /\ UNCHANGED <<first, cur_gain, cur_level, cv_filter, cv_mix,
                   ng_threshold, ng_release, dist, ng, envVal, satVal>>

\* lines 63-139
Process(r, inL, inR, saturation, envelope) ==
    LET shift  == Shift(r.pressed, first)
        mux    == KnobMux(shift, r.cv0, r.cv1,
                          [filter |-> cv_filter, mix |-> cv_mix,
                           threshold |-> ng_threshold, release |-> ng_release])
        encInc == EncInc(r.inc)
        g      == EncGain(shift, cur_gain, encInc)
        l      == EncLevel(shift, cur_level, encInc)
        reparam == NgReparam(first, shift)
    IN  /\ cv_filter' = mux.filter
        /\ cv_mix' = mux.mix
        /\ ng_threshold' = mux.threshold
        /\ ng_release' = mux.release
        /\ cur_gain' = g
        /\ cur_level' = l
        /\ dist' = DistSetParams(dist, DistGain(g, r.pitch),
                       DistFilter(mux.filter), DistLevel(l), DistMix(mux.mix),
                       Hard(r.sw_clip, r.gate), Tight(r.sw_mod),
                       Ruetz(r.sw_mod), Bypass(r.sw_clip))
        /\ ng' = IF reparam
                 THEN NgSetParams(ng, mux.threshold, mux.release)
                 ELSE ng
        \* lines 130-132: the engines write the output block
        /\ buf' = [inL |-> inL, inR |-> inR,
                   outL |-> Processed(inL), outR |-> Processed(inR)]
        /\ satVal' = SatVal(saturation)
        /\ envVal' = EnvVal(envelope)
        /\ first' = FALSE
        /\ blk' = [kind |-> "fx", shift |-> shift, prev |-> blk.shift,
                   wasFirst |-> first, calls |-> mux.calls,
                   distUpdate |-> TRUE, ngUpdate |-> reparam]

\* One audio block: the interrupt handler runs to completion
AudioCallback(r, inL, inR, saturation, envelope) ==
    /\ hw' = r                                   \* line 55
    /\ IF ~initialized
       THEN PassThru(r, inL, inR)
       ELSE Process(r, inL, inR, saturation, envelope)
    /\ UNCHANGED <<initialized, main_first, boottime, now, pc, led, ledShown>>

----------------------------------------------------------------------------
(* main, lines 143-183 *)

\* lines 155-157
NgDetectorGain == 200
NgReduction == 160
NgSlope == 120

\* System::GetNow() - boottime (uint32_t; boottime is read at power-on and
\* the model's clock stops a millisecond past the boot window, far from
\* the counter's wrap)
Elapsed == now - boottime

\* mutant: the boot window includes its last millisecond
InBootWindow_Inclusive(elapsed) == elapsed <= BootWindow

\* line 166: System::GetNow() - boottime < 1000
InBootWindow(elapsed) == elapsed < BootWindow

\* lines 168-169 and 178-179: the colours given to hw.SetLed
BootLeft == <<One, 0, 0>>
BootRight == <<One, 0, One>>

\* mutant: the envelope drives the red channel of the left LED
ReadyLeft_Red(env) == <<env, 0, 0>>

ReadyLeft(env) == <<0, env, 0>>
ReadyRight(sat) == <<sat, 0, 0>>
LedOff == <<0, 0, 0>>

\* mutant: the test of line 165 is missing and line 175 toggles the flag
MainBoot_Toggle ==
    /\ pc = "loop"
    /\ IF InBootWindow(Elapsed)
       THEN IF main_first
            THEN /\ led' = [left |-> BootLeft, right |-> BootRight]
                 /\ ledShown' = led'
                 /\ main_first' = FALSE
                 /\ UNCHANGED initialized
            ELSE UNCHANGED <<led, ledShown, main_first, initialized>>
       ELSE /\ initialized' = ~initialized
            /\ UNCHANGED <<led, ledShown, main_first>>
    /\ UNCHANGED <<pc, boottime, now, audioVars, telemetryVars, twinVars>>

\* mutant: line 175 is missing, the flag is never set
MainBoot_NeverReady ==
    /\ pc = "loop"
    /\ ~initialized
    /\ IF InBootWindow(Elapsed)
       THEN IF main_first
            THEN /\ led' = [left |-> BootLeft, right |-> BootRight]
                 /\ ledShown' = led'
                 /\ main_first' = FALSE
                 /\ UNCHANGED initialized
            ELSE UNCHANGED <<led, ledShown, main_first, initialized>>
       ELSE UNCHANGED <<led, ledShown, main_first, initialized>>
    /\ UNCHANGED <<pc, boottime, now, audioVars, telemetryVars, twinVars>>

\* lines 165-176: one iteration of the loop while !initialized
MainBoot ==
    /\ pc = "loop"
    /\ ~initialized
    /\ IF InBootWindow(Elapsed)
       THEN IF main_first
            THEN /\ led' = [left |-> BootLeft, right |-> BootRight]
                 /\ ledShown' = led'
                 /\ main_first' = FALSE
                 /\ UNCHANGED initialized
            ELSE UNCHANGED <<led, ledShown, main_first, initialized>>
       ELSE /\ initialized' = TRUE
            /\ UNCHANGED <<led, ledShown, main_first>>
    /\ UNCHANGED <<pc, boottime, now, audioVars, telemetryVars, twinVars>>

\* lines 165, 177-178: initialized is set; hw.SetLed(LED_LEFT, 0, envVal, 0)
MainLedLeft ==
    /\ pc = "loop"
    /\ initialized
    /\ led' = [led EXCEPT !.left = ReadyLeft(envVal)]
    /\ pc' = "right"
    /\ UNCHANGED <<initialized, ledShown, main_first, boottime, now,
                   audioVars, telemetryVars, twinVars>>

\* mutant: the status loop clears the saturation once it has shown it
MainLedRight_ClearsSat ==
    /\ pc = "right"
    /\ led' = [led EXCEPT !.right = ReadyRight(satVal)]
    /\ satVal' = 0
    /\ pc' = "update"
    /\ UNCHANGED <<initialized, ledShown, main_first, boottime, now,
                   audioVars, envVal, twinVars>>

\* line 179: hw.SetLed(LED_RIGHT, satVal, 0, 0)
MainLedRight ==
    /\ pc = "right"
    /\ led' = [led EXCEPT !.right = ReadyRight(satVal)]
    /\ pc' = "update"
    /\ UNCHANGED <<initialized, ledShown, main_first, boottime, now,
                   audioVars, telemetryVars, twinVars>>

\* line 180: hw.UpdateLeds()
MainUpdateLeds ==
    /\ pc = "update"
    /\ ledShown' = led
    /\ pc' = "loop"
    /\ UNCHANGED <<initialized, led, main_first, boottime, now,
                   audioVars, telemetryVars, twinVars>>

\* The millisecond clock moves on.  The model samples it at the instants
\* around the boot window, and stops following it once initialized is set:
\* line 166 is the only read of the clock and is not reached any more.
ClockMargin == 1
ClockInstants ==
    {1} \cup {BootWindow + k : k \in (0 - ClockMargin)..ClockMargin}
Tick ==
    /\ ~initialized
    /\ \E e \in ClockInstants :
          /\ e > Elapsed
          /\ now' = boottime + e
    /\ UNCHANGED <<initialized, main_first, boottime, pc, led, ledShown,
                   audioVars, telemetryVars, twinVars>>

----------------------------------------------------------------------------
(* The state after construction: the static initialisers and main up to    *)
(* line 162                                                                *)

\* milliseconds spent in hw.Init .. ng.SetParam before line 159
StartTimes == {7}

NoReadings == [cv0 |-> 0, cv1 |-> 0, pressed |-> FALSE, inc |-> 0, pitch |-> 0,
               sw_clip |-> POS_UP, sw_mod |-> POS_UP, gate |-> FALSE]

\* The state of the audio handler: its statics, the engines and telemetry
AudioState ==
    [first |-> first, cur_gain |-> cur_gain, cur_level |-> cur_level,
     cv_filter |-> cv_filter, cv_mix |-> cv_mix,
     ng_threshold |-> ng_threshold, ng_release |-> ng_release,
     dist |-> dist, ng |-> ng, hw |-> hw, buf |-> buf, blk |-> blk,
     envVal |-> envVal, satVal |-> satVal]

Init ==
    /\ initialized = FALSE
    /\ envVal = 0
    /\ satVal = 0
    /\ dist = [gain |-> Unset, filter |-> Unset, level |-> Unset,
               drywet |-> Unset, siled |-> Unset, hard |-> Unset,
               tight |-> Unset, ruetz |-> Unset, bypass |-> Unset]
    /\ ng = [threshold |-> Unset, release |-> Unset, bypass |-> Unset,
             detector_gain |-> NgDetectorGain, reduction |-> NgReduction,
             slope |-> NgSlope]
    /\ first = TRUE
    /\ cur_gain = Half
    /\ cur_level = Half
    /\ cv_filter = GrabValue(0)
    /\ cv_mix = GrabValue(0)
    /\ ng_threshold = GrabValue(NgThresholdInit)
    /\ ng_release = GrabValue(Half)
    /\ hw = NoReadings
    /\ buf = [inL |-> Sample(0), inR |-> Sample(0),
              outL |-> Sample(0), outR |-> Sample(0)]
    /\ blk = [kind |-> "none", shift |-> FALSE, prev |-> FALSE,
              wasFirst |-> TRUE, calls |-> NoCalls,
              distUpdate |-> FALSE, ngUpdate |-> FALSE]
    /\ main_first = TRUE
    /\ now \in StartTimes
    /\ boottime = now
    /\ pc = "loop"
    /\ led = [left |-> LedOff, right |-> LedOff]
    /\ ledShown = led
    /\ twin = AudioState
    /\ phase = "idle"
    /\ pend = NoReadings

----------------------------------------------------------------------------
(* Readings the hardware layer delivers.  Each specification below runs    *)
(* the same program against one family of readings.                        *)

Readings(K0, K1, P, I, CV, SC, SM, G) ==
    [cv0 : K0, cv1 : K1, pressed : P, inc : I, pitch : CV,
     sw_clip : SC, sw_mod : SM, gate : G]

StereoPairs == {<<Sample(1), Sample(2)>>, <<Sample(2), Sample(1)>>}
Saturations == {1000, 3000}
Envelopes == {80, 200}

\* One audio block of the program on its own
OneRun(r, inL, inR, saturation, envelope) ==
    /\ AudioCallback(r, inL, inR, saturation, envelope)
    /\ UNCHANGED twinVars

\* Boot and status: audio samples and engine telemetry vary
AudioBlock ==
    \E r \in Readings({161}, {201}, BOOLEAN, {0}, {0},
                      {POS_UP}, {POS_UP}, {FALSE}),
       s \in StereoPairs, sat \in Saturations, env \in Envelopes :
        OneRun(r, s[1], s[2], sat, env)

\* Knob takeover: the two knobs and the encoder switch vary
AudioBlockKnobs ==
    \E r \in Readings({100, 161}, {201, 300}, BOOLEAN, {0}, {0},
                      {POS_UP}, {POS_UP}, {FALSE}) :
        OneRun(r, Sample(1), Sample(2), 1000, 80)

\* Mode decoding: the switches, the gate input and the mix knob vary
AudioBlockModes ==
    \E r \in Readings({161}, {100, 300}, {FALSE}, {0}, {0},
                      Switch3, Switch3, BOOLEAN) :
        OneRun(r, Sample(1), Sample(2), 1000, 80)

\* Gain and level: encoder ticks, encoder switch and pitch CV vary
AudioBlockGain ==
    \E r \in Readings({161}, {201}, BOOLEAN, {0 - 1, 0, 1}, {0, 100, One},
                      {POS_UP, POS_CENTER}, {POS_UP}, {FALSE}) :
        OneRun(r, Sample(1), Sample(2), 1000, 80)

\* Gate threshold: knob 0 reads 0.04, 0.05, 0.06 and a value next to the
\* initial threshold, with the encoder switch held or not
AudioBlockGate ==
    \E r \in Readings({16, 20, 24, 161}, {201}, BOOLEAN, {0}, {0},
                      {POS_UP}, {POS_UP}, {FALSE}) :
        OneRun(r, Sample(1), Sample(2), 1000, 80)

\* Pitch CV: the encoder reads sixteen ticks either way or none (the
\* smallest readings that line 82 does not truncate to 0), not shifted, and
\* the pitch CV varies
AudioBlockPitch ==
    \E r \in Readings({161}, {201}, {FALSE}, {0 - EncDiv, 0, EncDiv},
                      {0, 100, One}, {POS_UP}, {POS_UP}, {FALSE}) :
        OneRun(r, Sample(1), Sample(2), 1000, 80)

\* Two runs of the program side by side, for the same raw readings and the
\* same boot timing (they share initialized, the clock and the status
\* loop) and for engines that report telemetry independently of each
\* other.  A block is handled by the first run, then by the second run on
\* the same readings; the status loop and the clock move between blocks.
TwinReadings ==
    Readings({161}, {201}, BOOLEAN, {0}, {0}, {POS_UP}, {POS_UP}, {FALSE})
TwinTelemetry == {<<1000, 80>>, <<3000, 200>>}

TwinFirst ==
    /\ phase = "idle"
    /\ \E r \in TwinReadings, t \in TwinTelemetry :
          /\ AudioCallback(r, Sample(1), Sample(2), t[1], t[2])
          /\ pend' = r
    /\ phase' = "swap"
    /\ UNCHANGED twin

\* The other run takes the place of the one that has just run
TwinSwap ==
    /\ phase \in {"swap", "back"}
    /\ first' = twin.first
    /\ cur_gain' = twin.cur_gain
    /\ cur_level' = twin.cur_level
    /\ cv_filter' = twin.cv_filter
    /\ cv_mix' = twin.cv_mix
    /\ ng_threshold' = twin.ng_threshold
    /\ ng_release' = twin.ng_release
    /\ dist' = twin.dist
    /\ ng' = twin.ng
    /\ hw' = twin.hw
    /\ buf' = twin.buf
    /\ blk' = twin.blk
    /\ envVal' = twin.envVal
    /\ satVal' = twin.satVal
    /\ twin' = AudioState
    /\ phase' = IF phase = "swap" THEN "second" ELSE "idle"
    /\ UNCHANGED <<initialized, mainVars, now, pend>>

TwinSecond ==
    /\ phase = "second"
    /\ \E t \in TwinTelemetry :
          AudioCallback(pend, Sample(1), Sample(2), t[1], t[2])
    /\ phase' = "back"
    /\ UNCHANGED <<twin, pend>>

TwinStatus ==
    /\ phase = "idle"
    /\ MainBoot \/ MainLedLeft \/ MainLedRight \/ MainUpdateLeds

TwinTick ==
    /\ phase = "idle"
    /\ Tick

StatusLoop == MainBoot \/ MainLedLeft \/ MainLedRight \/ MainUpdateLeds

Next == AudioBlock \/ MainBoot \/ MainLedLeft \/ MainLedRight
           \/ MainUpdateLeds \/ Tick
NextKnobs == AudioBlockKnobs \/ MainBoot \/ MainLedLeft \/ MainLedRight
                \/ MainUpdateLeds \/ Tick
NextModes == AudioBlockModes \/ MainBoot \/ MainLedLeft \/ MainLedRight
                \/ MainUpdateLeds \/ Tick
NextGain == AudioBlockGain \/ MainBoot \/ MainLedLeft \/ MainLedRight
               \/ MainUpdateLeds \/ Tick
NextGate == AudioBlockGate \/ MainBoot \/ MainLedLeft \/ MainLedRight
               \/ MainUpdateLeds \/ Tick
NextPitch == AudioBlockPitch \/ MainBoot \/ MainLedLeft \/ MainLedRight
                \/ MainUpdateLeds \/ Tick
NextTwin == TwinFirst \/ TwinSwap \/ TwinSecond \/ TwinStatus \/ TwinTick

Spec == Init /\ [][Next]_vars
SpecKnobs == Init /\ [][NextKnobs]_vars
SpecModes == Init /\ [][NextModes]_vars
SpecGain == Init /\ [][NextGain]_vars
SpecGate == Init /\ [][NextGate]_vars
SpecPitch == Init /\ [][NextPitch]_vars
SpecTwin == Init /\ [][NextTwin]_vars

\* The status loop of lines 164-182 never ends and the millisecond clock
\* of System::GetNow() keeps advancing: the loop takes its next iteration
\* and the clock its next instant, whatever the audio interrupts do.
Fairness == WF_vars(MainBoot) /\ WF_vars(Tick)
SpecLive == Spec /\ Fairness

----------------------------------------------------------------------------
(* Properties *)

BlockProcessed == blk.kind = "fx"
Handled == blk.kind \in {"copy", "fx"}

UnshiftedCalls ==
    [cv_filter |-> {Update(hw.cv0)}, cv_mix |-> {Update(hw.cv1)},
     ng_threshold |-> {Lock}, ng_release |-> {Lock}]
ShiftedCalls ==
    [cv_filter |-> {Lock}, cv_mix |-> {Lock},
     ng_threshold |-> {Update(hw.cv0)}, ng_release |-> {Update(hw.cv1)}]
OnePairUpdated ==
    blk.calls = IF blk.shift THEN ShiftedCalls ELSE UnshiftedCalls

\* C2 as stated: in every audio block handled by the audio callback exactly
\* one knob pair is updated and the other is locked.
C2_OnePairEveryBlock == Handled => OnePairUpdated

\* C2 amended: in every audio block handled while initialized is true,
\* exactly one knob pair is updated with knob0 and knob1 and the other is
\* locked (filter and mix updated when not shifted, threshold and release
\* when shifted); a block handled before that is passed through and neither
\* updates nor locks any control.
C2_OnePairEveryProcessedBlock ==
    /\ BlockProcessed => OnePairUpdated
    /\ blk.kind = "copy" => blk.calls = NoCalls

\* C2 witness: a shifted block has updated threshold and release and locked
\* filter and mix
C2_Witness ==
    BlockProcessed /\ blk.shift /\ blk.calls = ShiftedCalls
        /\ ~cv_filter.tracking /\ ng_threshold.tracking

\* C3: a block handled while initialized is false copies the input block
\* to the output and leaves gain, level, the four controls, first, the
\* telemetry and every engine parameter as they were; no call is made on
\* the controls or on the engines.
C3_PassThruFrame ==
    [][~initialized =>
          /\ buf'.outL = buf'.inL
          /\ buf'.outR = buf'.inR
          /\ blk'.calls = NoCalls /\ ~blk'.distUpdate /\ ~blk'.ngUpdate
          /\ UNCHANGED <<cur_gain, cur_level, cv_filter, cv_mix, ng_threshold,
                         ng_release, first, envVal, satVal, dist, ng>>]_vars

\* C3 witness: a block with the encoder pressed has been passed through
\* during the boot window
C3_Witness ==
    /\ ~initialized /\ blk.kind = "copy" /\ hw.pressed /\ first
    /\ buf.inL = Sample(2) /\ buf.outL = Sample(2)
    /\ buf.inR = Sample(1) /\ buf.outR = Sample(1)

\* C4: once initialized is true it is true in every later state, whatever
\* the interleaving of status-loop steps and audio blocks.
C4_ReadyIsStable == [][initialized => initialized']_vars

\* C4 witness: after the transition both the status loop and the audio
\* handler have run
C4_Witness == initialized /\ BlockProcessed /\ pc = "update"

\* C5 as stated: a status-loop iteration that sees 1000 ms or less leaves
\* the state BLINKING (and blocks are passed through), one that sees more
\* than 1000 ms sets initialized.
C5_ReadyOnlyAbove1000 ==
    [][/\ (~initialized /\ Elapsed <= BootWindow) =>
              (~initialized' /\ blk'.kind # "fx")
       /\ (MainBoot /\ Elapsed > BootWindow) => initialized']_vars

\* C5 amended: a status-loop iteration that sees less than 1000 ms (999 ms
\* or less) leaves the state BLINKING, and blocks are passed through; one
\* that sees 1000 ms or more (exactly 1000 ms included) sets initialized.
C5_ReadyFrom1000 ==
    [][/\ (~initialized /\ Elapsed < BootWindow) =>
              (~initialized' /\ blk'.kind # "fx")
       /\ (MainBoot /\ Elapsed >= BootWindow) => initialized']_vars

\* C5 witness: initialized was set by an iteration that saw exactly 1000 ms
C5_Witness == initialized /\ Elapsed = BootWindow /\ BlockProcessed

Flag(b) == IF b THEN One ELSE 0

\* C6: in a processed block hard = 1 iff (switchClip = CENTER or the gate
\* input is active), bypass = 1 iff switchClip = DOWN, ruetz = 1 iff
\* switchMod = CENTER, tight = 1 iff switchMod = DOWN, whatever the earlier
\* blocks were.
C6_ModeFlags ==
    BlockProcessed =>
        /\ dist.hard = Flag(hw.sw_clip = POS_CENTER \/ hw.gate)
        /\ dist.bypass = Flag(hw.sw_clip = POS_DOWN)
        /\ dist.ruetz = Flag(hw.sw_mod = POS_CENTER)
        /\ dist.tight = Flag(hw.sw_mod = POS_DOWN)

\* C6 witness: clip switch UP with the gate input active gives hard, mod
\* switch DOWN gives tight
C6_Witness ==
    /\ BlockProcessed /\ hw.sw_clip = POS_UP /\ hw.gate /\ dist.hard = One
    /\ hw.sw_mod = POS_DOWN /\ dist.tight = One /\ dist.ruetz = 0
    /\ dist.bypass = 0

\* C7 as stated: switchClip = DOWN gives hard = 0 and bypass = 1, and
\* switchClip = CENTER gives hard = 1 and bypass = 0, for every value of
\* the other inputs.
C7_ClipTruthTable ==
    BlockProcessed =>
        /\ hw.sw_clip = POS_DOWN => (dist.hard = 0 /\ dist.bypass = One)
        /\ hw.sw_clip = POS_CENTER => (dist.hard = One /\ dist.bypass = 0)

\* C7 amended: switchClip = DOWN gives bypass = 1, and hard = 0 when the
\* gate input is inactive but hard = 1 when it is active; switchClip =
\* CENTER gives hard = 1 and bypass = 0 for every value of the other inputs.
C7_ClipTruthTableWithGate ==
    BlockProcessed =>
        /\ hw.sw_clip = POS_DOWN =>
              (dist.hard = Flag(hw.gate) /\ dist.bypass = One)
        /\ hw.sw_clip = POS_CENTER => (dist.hard = One /\ dist.bypass = 0)

\* C7 witness: clip switch DOWN with the gate input active: hard and bypass
\* are both set
C7_Witness ==
    /\ BlockProcessed /\ hw.sw_clip = POS_DOWN /\ hw.gate
    /\ dist.hard = One /\ dist.bypass = One

\* A step that is a processed audio block, not the first one
LaterBlock ==
    /\ audioVars' # audioVars \/ telemetryVars' # telemetryVars
    /\ blk'.kind = "fx"
    /\ ~first

\* The value a control takes from knob reading cv when its held value is
\* held: the reading once it has met the held value, the held value before
Taken(caught, cv, held) == IF caught \/ Near(cv, held) THEN cv ELSE held

\* The mix value as dispatched: P_SILED in hard mode, P_DRYWET otherwise
DispatchedMix(d) == IF d.hard = One THEN d.siled ELSE d.drywet

\* C8: filter and mix keep their dispatched values through a run of shifted
\* blocks; on the block where shift is released and on the non-shifted
\* blocks after it they stay at that value until the knob reading meets it,
\* and equal the knob reading from then on.  The same for the gate
\* threshold and release from the block where shift is pressed.
C8_NoJumpOnShiftRelease ==
    [][LaterBlock =>
          /\ blk'.shift =>
                /\ dist'.filter = dist.filter
                /\ DispatchedMix(dist') = DispatchedMix(dist)
                /\ ng'.threshold =
                      Taken(blk.shift /\ ng_threshold.tracking,
                            hw'.cv0, ng.threshold)
                /\ ng'.release =
                      Taken(blk.shift /\ ng_release.tracking,
                            hw'.cv1, ng.release)
                /\ ng_threshold'.tracking = (ng'.threshold = hw'.cv0)
                /\ ng_release'.tracking = (ng'.release = hw'.cv1)
          /\ ~blk'.shift =>
                /\ ng'.threshold = ng.threshold
                /\ ng'.release = ng.release
                /\ dist'.filter =
                      Taken(~blk.shift /\ cv_filter.tracking,
                            hw'.cv0, dist.filter)
                /\ DispatchedMix(dist') =
                      Taken(~blk.shift /\ cv_mix.tracking,
                            hw'.cv1, DispatchedMix(dist))
                /\ cv_filter'.tracking = (dist'.filter = hw'.cv0)
                /\ cv_mix'.tracking = (DispatchedMix(dist') = hw'.cv1)]_vars

\* C8 witness: shift has just been released with knob0 away from the held
\* filter value, and the dispatched filter is still the held value
C8_Witness ==
    /\ BlockProcessed /\ ~blk.shift /\ blk.prev
    /\ ~Near(hw.cv0, dist.filter) /\ ~cv_filter.tracking
    /\ dist.filter = cv_filter.value

InUnit(x) == x >= 0 /\ x <= One

AudioWrote == audioVars' # audioVars \/ telemetryVars' # telemetryVars
StatusWrote == mainVars' # mainVars \/ initialized' # initialized

\* C10 as stated: telemetry is the only state that both contexts access.
\* Each context writes only its own variables; and the audio handler, which
\* then reads only its own variables and the telemetry it writes, does
\* after a pass-through block (which changed none of them) what it did in
\* that block: it passes the next block through.
C10_OnlyTelemetryShared ==
    [][/\ AudioWrote => UNCHANGED <<mainVars, initialized>>
       /\ StatusWrote => UNCHANGED <<audioVars, telemetryVars>>
       /\ blk.kind = "copy" => blk'.kind # "fx"]_vars

\* C10 amended: telemetry and the initialized flag are the state that both
\* contexts access.  The audio handler is the only writer of telemetry and
\* of its own variables, it reads initialized (a block is passed through
\* iff initialized is false) and never writes it; the status loop is the
\* only writer of initialized and of the LED state, reads telemetry when
\* it sets the LEDs and never writes it or any variable of the handler.
C10_TelemetryAndInitializedShared ==
    [][/\ AudioWrote =>
             /\ UNCHANGED <<mainVars, initialized>>
             /\ (blk'.kind = "copy") <=> ~initialized
             /\ telemetryVars' # telemetryVars => blk'.kind = "fx"
       /\ StatusWrote =>
             /\ UNCHANGED <<audioVars, telemetryVars>>
             /\ (initialized /\ led'.left # led.left) =>
                    led'.left = ReadyLeft(envVal)
             /\ (initialized /\ led'.right # led.right) =>
                    led'.right = ReadyRight(satVal)]_vars

\* C10 witness: the audio handler has written telemetry and the status
\* loop has shown it
C10_Witness ==
    /\ initialized /\ BlockProcessed /\ envVal > 0 /\ satVal = One
    /\ ledShown.left = ReadyLeft(envVal)
    /\ ledShown.right = ReadyRight(satVal)

\* A step that is a processed audio block
ProcessedStep ==
    /\ audioVars' # audioVars \/ telemetryVars' # telemetryVars
    /\ blk'.kind = "fx"

\* One encoder tick as the claim scales it: 1/16
TickStep == One \div EncDiv

\* C11 as stated: a processed block with encoder delta d turns the stored
\* level (shifted) or the stored gain (not shifted) into
\* clamp(old + d/16, 0, 1) and leaves the other one as it was.
C11_EncoderSixteenth ==
    [][ProcessedStep =>
          IF blk'.shift
          THEN /\ cur_level' = fclamp(cur_level + hw'.inc * TickStep, 0, One)
               /\ cur_gain' = cur_gain
          ELSE /\ cur_gain' = fclamp(cur_gain + hw'.inc * TickStep, 0, One)
               /\ cur_level' = cur_level]_vars

\* C12: at every gate re-parameterization the bypass flag pushed to the gate
\* engine is 1 exactly when the held threshold is strictly below 0.05:
\* 0.04 gives 1, 0.06 gives 0 and exactly 0.05 gives 0.
C12_GateBypassBelowCutoff ==
    (BlockProcessed /\ blk.ngUpdate) =>
        /\ ng.threshold = ng_threshold.value
        /\ ng.bypass = One <=> ng_threshold.value < BypassCutoff
        /\ ng.bypass = 0 <=> ng_threshold.value >= BypassCutoff
        /\ ng_threshold.value = 16 => ng.bypass = One
        /\ ng_threshold.value = 20 => ng.bypass = 0
        /\ ng_threshold.value = 24 => ng.bypass = 0

\* The gate is re-parameterized with the threshold held at exactly 0.05
C12_Witness ==
    /\ BlockProcessed /\ blk.ngUpdate /\ blk.shift
    /\ ng_threshold.value = BypassCutoff
    /\ ng.threshold = BypassCutoff
    /\ ng.bypass = 0

\* C13: in a processed block with hard = 1 the distortion engine receives
\* dryWet = 1 and siLed = the resolved mix; with hard = 0 it receives
\* dryWet = the resolved mix and siLed is not written, so the engine keeps
\* the siLed of the most recent hard block (or its own default).
C13_MixRouting ==
    [][ProcessedStep =>
          IF dist'.hard = One
          THEN /\ dist'.drywet = One
               /\ dist'.siled = cv_mix'.value
          ELSE /\ dist'.hard = 0
               /\ dist'.drywet = cv_mix'.value
               /\ dist'.siled = dist.siled]_vars

\* A soft block after a hard one: dryWet follows the mix of this block,
\* siLed still holds the mix of the earlier hard block
C13_Witness ==
    /\ BlockProcessed /\ dist.hard = 0
    /\ hw.cv1 = 300 /\ dist.drywet = 300
    /\ dist.siled = 100

\* A soft block with no hard block before it: siLed was never written
C13_WitnessDefault ==
    /\ BlockProcessed /\ dist.hard = 0 /\ dist.drywet = 100
    /\ dist.siled = Unset

\* C14: the shift state of a processed block is false on the very first
\* processed block even when the encoder is held, and on every later block
\* it equals the encoder-held reading of that block; nothing of earlier
\* blocks other than the first-run flag enters it.
C14_ShiftFromReading ==
    BlockProcessed =>
        /\ blk.wasFirst => ~blk.shift
        /\ ~blk.wasFirst => (blk.shift <=> hw.pressed)
        /\ ~first

\* The first processed block with the encoder held: shift is false
C14_Witness ==
    BlockProcessed /\ blk.wasFirst /\ hw.pressed /\ ~blk.shift

\* A later block with the encoder held: shift is true
C14_WitnessLater ==
    BlockProcessed /\ ~blk.wasFirst /\ hw.pressed /\ blk.shift

HardRegion == 2 * dist.hard >= One

\* C15 as stated: exactly one of {hard region, ruetz, tight, none} is
\* active: at most one of the dispatched flags hard, ruetz and tight is 1,
\* for every combination of the switches and the gate input.
C15_OneOfHardRuetzTight ==
    BlockProcessed =>
        Cardinality({f \in {"hard", "ruetz", "tight"} : dist[f] = One}) <= 1

\* C15 amended: at most one of the flags ruetz and tight is 1 (the mod
\* switch has one position), and hard is decided by the clip switch and the
\* gate input alone, so it is 1 or 0 whatever ruetz and tight are.
C15_OneOfRuetzTight ==
    BlockProcessed =>
        /\ {dist.hard, dist.ruetz, dist.tight} \subseteq {0, One}
        /\ ~(dist.ruetz = One /\ dist.tight = One)
        /\ HardRegion <=> (hw.sw_clip = POS_CENTER \/ hw.gate)
        /\ (dist.ruetz = One \/ dist.tight = One) <=> hw.sw_mod # POS_UP

\* Both switches CENTER: hard and ruetz are 1 in the same block
C15_Witness ==
    /\ BlockProcessed /\ hw.sw_clip = POS_CENTER /\ hw.sw_mod = POS_CENTER
    /\ dist.hard = One /\ dist.ruetz = One /\ dist.tight = 0

DistPushed(d) ==
    \A f \in {"gain", "filter", "level", "drywet", "hard", "tight", "ruetz",
              "bypass"} : d[f] # Unset

\* C16: with the status loop iterating and the clock advancing, the boot
\* state becomes READY whatever the hardware reads, and from then on every
\* audio block runs the control path (the distortion parameters are pushed
\* and its Update is invoked) and is not passed through.
C16_EventuallyReadyThenControl ==
    /\ <>[]initialized
    /\ [][(initialized /\ AudioWrote) =>
             /\ blk'.kind = "fx"
             /\ blk'.distUpdate
             /\ DistPushed(dist')
             /\ buf'.outL = Processed(buf'.inL)
             /\ buf'.outR = Processed(buf'.inR)]_vars

\* READY was reached after pass-through blocks with the encoder held, and
\* the block after it ran the control path
C16_Witness ==
    /\ initialized /\ BlockProcessed /\ blk.wasFirst /\ hw.pressed
    /\ blk.distUpdate /\ DistPushed(dist)
    /\ Elapsed >= BootWindow

BootPattern == [left |-> BootLeft, right |-> BootRight]
LedsOff == [left |-> LedOff, right |-> LedOff]

Clamp01(x) == IF x < 0 THEN 0 ELSE IF x > One THEN One ELSE x

\* C18: in every processed block the gain dispatched to the distortion
\* engine is clamp(storedGain + pitchCV, 0, 1), and the stored gain is not
\* changed by the pitch CV: a block with no encoder movement leaves it as
\* it was, whatever the pitch CV reads.
C18_PitchAtDispatch ==
    [][ProcessedStep =>
          /\ dist'.gain = Clamp01(cur_gain' + hw'.pitch)
          /\ hw'.inc = 0 => cur_gain' = cur_gain]_vars

\* The encoder has moved the stored gain to 0; a block with no encoder
\* movement and a pitch CV of 0.25 dispatches 0.25 and leaves it at 0
C18_Witness ==
    /\ BlockProcessed /\ hw.inc = 0 /\ hw.pitch = 100
    /\ cur_gain = 0 /\ dist.gain = 100

\* C19: at the end of every processed block the threshold and the release
\* last pushed to the gate engine equal the values now held by the
\* threshold control and the release control, and the last pushed gate
\* bypass equals (held threshold < 0.05); also in the blocks after shift is
\* released, where nothing is pushed.
C19_GateInSync ==
    BlockProcessed =>
        /\ ng.threshold = ng_threshold.value
        /\ ng.release = ng_release.value
        /\ ng.bypass = Flag(ng_threshold.value < BypassCutoff)

\* The block after shift is released, knob 0 away from the threshold it
\* set: nothing is pushed, and the gate engine has the held values
C19_Witness ==
    /\ BlockProcessed /\ ~blk.shift /\ blk.prev /\ ~blk.ngUpdate
    /\ ng_threshold.value = 16 /\ hw.cv0 = 24
    /\ ng.threshold = 16 /\ ng.bypass = One
    /\ ng_release.value = 201 /\ ng.release = 201

ControlFields ==
    {"first", "cur_gain", "cur_level", "cv_filter", "cv_mix", "ng_threshold",
     "ng_release", "dist", "ng", "hw", "buf", "blk"}

\* C20: no control decision depends on telemetry.  Two runs given the same
\* raw readings and the same boot timing, whose engines report different
\* saturation and envelope values, have after every block the same shift
\* state, held values, stored gain and level, the same parameters
\* dispatched to both engines and the same gate re-parameterization blocks
\* (and the same audio routing).
C20_TelemetryNoninterference ==
    phase = "idle" =>
        \A f \in ControlFields : AudioState[f] = twin[f]

\* Both runs have processed a shifted block that re-parameterized the gate,
\* with different telemetry reported in the two runs
C20_Witness ==
    /\ phase = "idle" /\ BlockProcessed /\ blk.shift /\ blk.ngUpdate
    /\ twin.blk.kind = "fx" /\ twin.blk.shift
    /\ satVal = One /\ twin.satVal < One
    /\ envVal # twin.envVal

====
